---- MODULE Spec2Model ----
(***************************************************************************)
(* wordcount (src/lib.rs): count(input, option) reads a byte source line   *)
(* by line and accumulates a frequency table of characters, words or       *)
(* lines.                                                                  *)
(*                                                                         *)
(* A source is a finite byte sequence together with the way it ends: with  *)
(* end-of-file, or with an I/O error reported by the reader once its bytes *)
(* are exhausted.  Bytes are integers 0..255, text is a sequence of        *)
(* Unicode code points, a table is a function from text to a count.        *)
(***************************************************************************)
EXTENDS Integers, Sequences, FiniteSets, TLC

\* ------------------------------------------------------------------ bounds
\* Longest enumerated byte sequence of a source.
MaxBytes == 3
\* Most calls of count in a behaviour of SpecCalls.
MaxCalls == 3
\* Longest enumerated byte sequence of a source of FairSpec.
MaxFairBytes == 2

\* ------------------------------------------------------------ the alphabet
\* 'a', '1', '_', ' ', '\n' (10), '\r' (13), and the two bytes of U+00E9.
Alphabet == {97, 49, 95, 32, 10, 13, 195, 169}

RECURSIVE SeqsUpTo(_, _)
SeqsUpTo(S, n) ==
    IF n = 0 THEN {<< >>}
    ELSE LET shorter == SeqsUpTo(S, n - 1)
         IN  shorter \cup {Append(s, b) : s \in {t \in shorter : Len(t) = n - 1}, b \in S}

\* The inputs of the tests and of the doc example of src/lib.rs.
DocInput   == <<97, 97, 32, 98, 98, 32, 99, 99, 32, 98, 98>>   \* "aa bb cc bb"
Works2Input == <<97, 97, 32, 99, 99, 32, 100, 100>>            \* "aa cc dd"
Works3Input == <<97, 97, 32, 32, 99, 99, 32, 100, 100>>        \* "aa  cc dd"
UnknownInput == <<97, 240, 144, 128, 227, 129, 130>>           \* b'a', f0 90 80, e3 81 82
\* Multi-line inputs with repeated and terminated lines.
CharInput == <<97, 98, 10, 99, 100>>                           \* "ab\ncd"
LineInput == <<120, 10, 120, 13, 10, 121>>                    \* "x\nx\r\ny"

TestInputs == {DocInput, Works2Input, Works3Input, UnknownInput, CharInput, LineInput}

Ends == {"eof", "ioerr"}

Sources == [bytes : SeqsUpTo(Alphabet, MaxBytes) \cup TestInputs, end : Ends]

FairSources == [bytes : SeqsUpTo(Alphabet, MaxFairBytes) \cup TestInputs, end : Ends]

CallSources ==
    [bytes : {DocInput, UnknownInput, LineInput, <<97, 10, 97>>}, end : {"eof"}]
        \cup {[bytes |-> <<97>>, end |-> "ioerr"]}

\* --------------------------------------------------------------- the enum
CountOption == {"Char", "Word", "Line"}

\* The default taken for the first variant of the enum.
CountOptionDefaultChar == "Char"

CountOptionDefault == "Word"

\* The member of a one-element set.  {e(x) : x \in {v}} evaluates v once,
\* where LET x == v IN e(x) evaluates it at every use of x.
The(S) == CHOOSE x \in S : TRUE

\* ------------------------------------------------------------------ UTF-8
IsCont(b) == b >= 128 /\ b <= 191

\* Length of the sequence a lead byte announces, 0 for a byte that leads none.
Utf8Width(b) ==
    IF b < 128 THEN 1
    ELSE IF b >= 194 /\ b <= 223 THEN 2
    ELSE IF b >= 224 /\ b <= 239 THEN 3
    ELSE IF b >= 240 /\ b <= 244 THEN 4
    ELSE 0

\* The second byte's range narrows after E0, ED, F0 and F4.
SecondOk(b1, b2) ==
    IF b1 = 224 THEN b2 >= 160 /\ b2 <= 191
    ELSE IF b1 = 237 THEN b2 >= 128 /\ b2 <= 159
    ELSE IF b1 = 240 THEN b2 >= 144 /\ b2 <= 191
    ELSE IF b1 = 244 THEN b2 >= 128 /\ b2 <= 143
    ELSE IsCont(b2)

RECURSIVE ValidFrom(_, _)
ValidFrom(bs, i) ==
    IF i > Len(bs) THEN TRUE
    ELSE \E w \in {Utf8Width(bs[i])} :
             /\ w > 0
             /\ i + w - 1 <= Len(bs)
             /\ w > 1 => SecondOk(bs[i], bs[i + 1])
             /\ \A k \in (i + 2)..(i + w - 1) : IsCont(bs[k])
             /\ ValidFrom(bs, i + w)

ValidUtf8(bs) == ValidFrom(bs, 1)

\* The code point of the sequence of width w starting at bs[i].
CodePoint(bs, i, w) ==
    IF w = 1 THEN bs[i]
    ELSE IF w = 2 THEN (bs[i] - 192) * 64 + (bs[i + 1] - 128)
    ELSE IF w = 3 THEN (bs[i] - 224) * 4096 + (bs[i + 1] - 128) * 64 + (bs[i + 2] - 128)
    ELSE (bs[i] - 240) * 262144 + (bs[i + 1] - 128) * 4096
             + (bs[i + 2] - 128) * 64 + (bs[i + 3] - 128)

RECURSIVE DecodeFrom(_, _)
DecodeFrom(bs, i) ==
    IF i > Len(bs) THEN << >>
    ELSE The({<<CodePoint(bs, i, w)>> \o DecodeFrom(bs, i + w) : w \in {Utf8Width(bs[i])}})

\* The text of a valid byte sequence.
Decode(bs) == DecodeFrom(bs, 1)

\* ------------------------------------------------------------ input.lines()
\* Index of the last byte read_line takes from position p: the first '\n'
\* after p, or the last byte of the source.
ChunkEnd(bs, p) ==
    LET nl == {i \in (p + 1)..Len(bs) : bs[i] = 10}
    IN  IF nl = {} THEN Len(bs) ELSE CHOOSE i \in nl : \A j \in nl : i <= j

\* Strips the "\n" only, leaving the "\r" of a "\r\n" in the line.
StripNewlineOnly(chunk) ==
    LET n == Len(chunk)
    IN  IF n >= 1 /\ chunk[n] = 10 THEN SubSeq(chunk, 1, n - 1) ELSE chunk

\* Lines strips the final "\n" and then a final "\r".
StripTerminator(chunk) ==
    LET n == Len(chunk)
    IN  IF n >= 1 /\ chunk[n] = 10
        THEN IF n >= 2 /\ chunk[n - 1] = 13
             THEN SubSeq(chunk, 1, n - 2)
             ELSE SubSeq(chunk, 1, n - 1)
        ELSE chunk

\* One call of the iterator of input.lines() with p bytes already taken:
\* None at the end of the source, Err for a failed read or for bytes that
\* are not UTF-8, Ok with the text of the line otherwise.
ReadLine(src, p) ==
    LET bs == src.bytes
        e == ChunkEnd(bs, p)
        chunk == SubSeq(bs, p + 1, e)
        hitEnd == e = Len(bs) /\ (e = p \/ bs[e] # 10)
    IN  IF hitEnd /\ src.end = "ioerr"
        THEN [kind |-> "ErrIo", line |-> << >>, next |-> e]
        ELSE IF e = p
        THEN [kind |-> "None", line |-> << >>, next |-> p]
        ELSE IF ~ValidUtf8(chunk)
        THEN [kind |-> "ErrUtf8", line |-> << >>, next |-> e]
        ELSE [kind |-> "Ok", line |-> Decode(StripTerminator(chunk)), next |-> e]

\* --------------------------------------------------------------- the table
EmptyTable == [k \in {} |-> 0]

\* freqs.insert(key, 1): an entry already there is overwritten.
BumpOverwrite(f, key) == [k \in DOMAIN f \cup {key} |-> IF k = key THEN 1 ELSE f[k]]

\* *freqs.entry(key).or_insert(1) += 1: a new entry starts at 2.
BumpFromOne(f, key) ==
    IF key \in DOMAIN f
    THEN [f EXCEPT ![key] = @ + 1]
    ELSE [k \in DOMAIN f \cup {key} |-> IF k = key THEN 2 ELSE f[k]]

\* *freqs.entry(key).or_insert(0) += 1
Bump(f, key) ==
    IF key \in DOMAIN f
    THEN [f EXCEPT ![key] = @ + 1]
    ELSE [k \in DOMAIN f \cup {key} |-> IF k = key THEN 1 ELSE f[k]]

\* The inner for loop: one Bump per token, from the i-th token on.
RECURSIVE BumpFrom(_, _, _)
BumpFrom(f, toks, i) ==
    IF i > Len(toks) THEN f
    ELSE The({BumpFrom(g, toks, i + 1) : g \in {Bump(f, toks[i])}})

BumpAll(f, toks) == BumpFrom(f, toks, 1)

\* ---------------------------------------------------------- the tokenizers
\* line.bytes(): one token per byte of the UTF-8 encoding of the line.
RECURSIVE BytesFrom(_, _)
BytesFrom(line, i) ==
    IF i > Len(line) THEN << >>
    ELSE (IF line[i] < 128 THEN <<(<<line[i]>>)>>
          ELSE <<(<<192 + (line[i] \div 64)>>), (<<128 + (line[i] % 64)>>)>>)
             \o BytesFrom(line, i + 1)

CharTokensBytes(line) == BytesFrom(line, 1)

\* line.chars(), each c.to_string()
CharTokens(line) == [i \in 1..Len(line) |-> <<line[i]>>]

\* The class \w of the regex crate over the code points up to U+00FF:
\* Alphabetic, Mark, Decimal_Number, Connector_Punctuation, Join_Control.
IsWordChar(c) ==
    \/ c >= 48 /\ c <= 57
    \/ c >= 65 /\ c <= 90
    \/ c = 95
    \/ c >= 97 /\ c <= 122
    \/ c \in {170, 181, 186}
    \/ c >= 192 /\ c <= 214
    \/ c >= 216 /\ c <= 246
    \/ c >= 248 /\ c <= 255

\* End of the greedy match of \w+ that starts at s.
RECURSIVE MatchEnd(_, _)
MatchEnd(line, s) ==
    IF s < Len(line) /\ IsWordChar(line[s + 1]) THEN MatchEnd(line, s + 1) ELSE s

\* re.find_iter(&line) from position i on: the leftmost match, then the
\* matches after it.
RECURSIVE FindIter(_, _)
FindIter(line, i) ==
    IF i > Len(line) THEN << >>
    ELSE IF ~IsWordChar(line[i]) THEN FindIter(line, i + 1)
    ELSE The({<<SubSeq(line, i, e)>> \o FindIter(line, e + 1) : e \in {MatchEnd(line, i)}})

\* The pieces between the characters outside \w, the empty ones included,
\* as line.split(..) yields them.
RECURSIVE SplitFrom(_, _, _)
SplitFrom(line, i, cur) ==
    IF i > Len(line) THEN <<cur>>
    ELSE IF IsWordChar(line[i]) THEN SplitFrom(line, i + 1, Append(cur, line[i]))
    ELSE <<cur>> \o SplitFrom(line, i + 1, << >>)

WordTokensSplit(line) == SplitFrom(line, 1, << >>)

WordTokens(line) == FindIter(line, 1)

LineTokens(line) == <<line>>

\* The tokens the match arm of an option takes from a line.
Tokens(line, opt) ==
    CASE opt = "Char" -> CharTokens(line)
      [] opt = "Word" -> WordTokens(line)
      [] opt = "Line" -> LineTokens(line)

\* The loop of count over lines that are all Ok, from an empty table.
RECURSIVE CountFrom(_, _, _, _)
CountFrom(f, lines, opt, n) ==
    IF n > Len(lines) THEN f
    ELSE The({CountFrom(g, lines, opt, n + 1) : g \in {BumpAll(f, Tokens(lines[n], opt))}})

CountLines(lines, opt) == CountFrom(EmptyTable, lines, opt, 1)

\* ------------------------------------------------------------------- state
VARIABLES
    source,      \* the input of the running call
    option,      \* its option
    viaDefault,  \* the option was given as CountOption::default()
    pos,         \* bytes of the source taken so far
    freqs,       \* the table of the running call
    pc,          \* "loop", "returned" or "panicked"
    err,         \* what line.unwrap() panicked on
    result,      \* the tables handed to the caller: none or one
    consumed,    \* the lines the loop body has processed, in order
    calls,       \* calls of count started so far
    ref          \* an earlier finished call, remembered for comparison

vars == <<source, option, viaDefault, pos, freqs, pc, err, result, consumed, calls, ref>>

NoRef == [set |-> FALSE, source |-> [bytes |-> << >>, end |-> "eof"],
          option |-> "Word", pc |-> "returned", result |-> {}]

\* let mut freqs = HashMap::new(), and the iterator at the start of the input
Enter(src, opt, dflt) ==
    /\ source = src
    /\ option = opt
    /\ viaDefault = dflt
    /\ pos = 0
    /\ freqs = EmptyTable
    /\ pc = "loop"
    /\ err = "none"
    /\ result = {}
    /\ consumed = << >>

Init ==
    /\ \E src \in Sources, dflt \in BOOLEAN :
          \E opt \in (IF dflt THEN {CountOptionDefault} ELSE CountOption) :
              Enter(src, opt, dflt)
    /\ calls = 1
    /\ ref = NoRef

InitFair ==
    /\ \E src \in FairSources, opt \in CountOption : Enter(src, opt, FALSE)
    /\ calls = 1
    /\ ref = NoRef

InitCalls ==
    /\ \E src \in CallSources, opt \in CountOption : Enter(src, opt, FALSE)
    /\ calls = 1
    /\ ref = NoRef

\* One iteration of the for loop whose line is Ok, with the table after it.
Iterate(opt, newFreqs) ==
    /\ pc = "loop"
    /\ option = opt
    /\ \E r \in {ReadLine(source, pos)} :
          /\ r.kind = "Ok"
          /\ pos' = r.next
          /\ consumed' = Append(consumed, r.line)
    /\ freqs' = newFreqs
    /\ UNCHANGED <<source, option, viaDefault, pc, err, result, calls, ref>>

StepChar ==
    Iterate("Char", BumpAll(freqs, CharTokens(ReadLine(source, pos).line)))

StepWord ==
    Iterate("Word", BumpAll(freqs, WordTokens(ReadLine(source, pos).line)))

StepLine ==
    Iterate("Line", Bump(freqs, ReadLine(source, pos).line))

\* The loop stops at the first Err and the table built so far is returned,
\* as with input.lines().map_while(Result::ok).
ReturnPartial ==
    /\ pc = "loop"
    /\ ReadLine(source, pos).kind = "ErrUtf8"
    /\ pc' = "returned"
    /\ result' = {freqs}
    /\ UNCHANGED <<source, option, viaDefault, pos, freqs, err, consumed, calls, ref>>

\* line.unwrap() on the Err of a line that is not UTF-8: the call panics and
\* hands nothing back.
PanicInvalidUtf8 ==
    /\ pc = "loop"
    /\ \E r \in {ReadLine(source, pos)} :
          /\ r.kind = "ErrUtf8"
          /\ pos' = r.next
    /\ pc' = "panicked"
    /\ err' = "InvalidData"
    /\ UNCHANGED <<source, option, viaDefault, freqs, result, consumed, calls, ref>>

\* line.unwrap() on the Err of a failed read: the same panic.
PanicIoError ==
    /\ pc = "loop"
    /\ \E r \in {ReadLine(source, pos)} :
          /\ r.kind = "ErrIo"
          /\ pos' = r.next
    /\ pc' = "panicked"
    /\ err' = "Io"
    /\ UNCHANGED <<source, option, viaDefault, freqs, result, consumed, calls, ref>>

\* freqs is returned from inside the loop, after its first iteration.
ReturnEarly ==
    /\ pc = "loop"
    /\ \/ pos > 0
       \/ ReadLine(source, pos).kind = "None"
    /\ pc' = "returned"
    /\ result' = {freqs}
    /\ UNCHANGED <<source, option, viaDefault, pos, freqs, err, consumed, calls, ref>>

\* The iterator is exhausted: freqs is returned.
Return ==
    /\ pc = "loop"
    /\ ReadLine(source, pos).kind = "None"
    /\ pc' = "returned"
    /\ result' = {freqs}
    /\ UNCHANGED <<source, option, viaDefault, pos, freqs, err, consumed, calls, ref>>

Next ==
    \/ StepChar
    \/ StepWord
    \/ StepLine
    \/ PanicInvalidUtf8
    \/ PanicIoError
    \/ Return

Spec == Init /\ [][Next]_vars

\* The call is synchronous: the loop keeps running until it returns or panics.
FairSpec == InitFair /\ [][Next]_vars /\ WF_vars(Next)

\* The table of the previous call is kept, as a static table would be.
KeepTable(old) == old

\* The table a fresh call starts with.
FreshTable(old) == EmptyTable

\* A further call of count, after the previous one has ended.  The ended
\* call may be remembered in ref.
Call ==
    /\ pc \in {"returned", "panicked"}
    /\ calls < MaxCalls
    /\ calls' = calls + 1
    /\ ref' \in {ref} \cup
                {[set |-> TRUE, source |-> source, option |-> option,
                  pc |-> pc, result |-> result] : x \in {y \in {1} : ~ref.set}}
    /\ \E src \in CallSources, opt \in CountOption :
          /\ source' = src
          /\ option' = opt
    /\ viaDefault' = FALSE
    /\ pos' = 0
    /\ freqs' = FreshTable(freqs)
    /\ pc' = "loop"
    /\ err' = "none"
    /\ result' = {}
    /\ consumed' = << >>

NextCalls == Next \/ Call

SpecCalls == InitCalls /\ [][NextCalls]_vars

\* ------------------------------------------------------- what the claims use
\* The lines of a byte sequence, stated from the positions of its '\n'
\* bytes instead of by reading it: line k lies between the (k-1)-th and the
\* k-th '\n'; a last line without '\n' counts when it is not empty.
NewlinesOf(bs) == {i \in 1..Len(bs) : bs[i] = 10}

NumLines(bs) ==
    Cardinality(NewlinesOf(bs)) + (IF Len(bs) > 0 /\ bs[Len(bs)] # 10 THEN 1 ELSE 0)

NthNewline(bs, k) ==
    CHOOSE i \in NewlinesOf(bs) : Cardinality({j \in NewlinesOf(bs) : j < i}) = k - 1

LineText(bs, k) ==
    LET terminated == k <= Cardinality(NewlinesOf(bs))
        first == IF k = 1 THEN 1 ELSE NthNewline(bs, k - 1) + 1
        last == IF terminated THEN NthNewline(bs, k) - 1 ELSE Len(bs)
        cr == terminated /\ last >= first /\ bs[last] = 13
    IN  Decode(SubSeq(bs, first, IF cr THEN last - 1 ELSE last))

SourceLines(bs) == [k \in 1..NumLines(bs) |-> LineText(bs, k)]

\* A source all of whose reads succeed and give UTF-8.
ValidSource == source.end = "eof" /\ ValidUtf8(source.bytes)

Returned == pc = "returned"

\* The table handed to the caller, once count has returned.
Table == CHOOSE t \in result : TRUE

RECURSIVE SumOver(_, _)
SumOver(f, S) ==
    IF S = {} THEN 0
    ELSE LET k == CHOOSE x \in S : TRUE IN f[k] + SumOver(f, S \ {k})

SumTable(f) == SumOver(f, DOMAIN f)

Flatten(ss) ==
    LET RECURSIVE Go(_)
        Go(i) == IF i > Len(ss) THEN << >> ELSE ss[i] \o Go(i + 1)
    IN  Go(1)

\* The tokens of all lines of the source under an option, in order.
AllTokens(bs, opt) ==
    Flatten([k \in 1..NumLines(bs) |-> Tokens(LineText(bs, k), opt)])

Occurrences(seq, x) == Cardinality({i \in 1..Len(seq) : seq[i] = x})

Range(seq) == {seq[i] : i \in 1..Len(seq)}

\* f counts exactly the members of seq.
CountsOf(f, seq) ==
    /\ DOMAIN f = Range(seq)
    /\ \A k \in DOMAIN f : f[k] = Occurrences(seq, k)
    /\ SumTable(f) = Len(seq)

Text1(a) == <<a>>
Text2(a, b) == <<a, b>>

\* C1: for a source of valid UTF-8 lines and every option, the returned
\* table maps each token to the number of times the option's tokenizer
\* produced it over the whole input, and its counts sum to the number of
\* tokens produced.
C1_TableCountsTokens ==
    Returned => /\ result = {freqs}
                /\ CountsOf(Table, AllTokens(source.bytes, option))

C1_Witness ==
    /\ Returned
    /\ Cardinality(DOMAIN Table) >= 2
    /\ \E k \in DOMAIN Table : Table[k] >= 2

\* The maximal runs of word characters of a line, as pairs of positions.
Runs(line) ==
    {r \in (1..Len(line)) \X (1..Len(line)) :
        /\ r[1] <= r[2]
        /\ \A i \in r[1]..r[2] : IsWordChar(line[i])
        /\ r[1] = 1 \/ ~IsWordChar(line[r[1] - 1])
        /\ r[2] = Len(line) \/ ~IsWordChar(line[r[2] + 1])}

\* The runs of all lines of the source: <<line number, first, last>>.
AllRuns(bs) ==
    UNION {{<<k, r[1], r[2]>> : r \in Runs(LineText(bs, k))} : k \in 1..NumLines(bs)}

RunText(bs, r) == SubSeq(LineText(bs, r[1]), r[2], r[3])

\* C2: in Word mode the tokens of a line are exactly its maximal runs of
\* word characters, left to right: no token is empty, consecutive
\* separators give no empty token, a line without word characters gives no
\* token; "aa bb cc bb" gives aa:1 bb:2 cc:1 and "aa  cc dd" three entries
\* of count 1.
C2_WordTokensAreMaximalRuns ==
    (Returned /\ option = "Word") =>
        LET bs == source.bytes
            runs == AllRuns(bs)
        IN  /\ DOMAIN Table = {RunText(bs, r) : r \in runs}
            /\ \A k \in DOMAIN Table :
                  /\ k # << >>
                  /\ Table[k] = Cardinality({r \in runs : RunText(bs, r) = k})
            /\ SumTable(Table) = Cardinality(runs)
            /\ \A n \in 1..Len(consumed) :
                  LET toks == WordTokens(consumed[n])
                      rs == Runs(consumed[n])
                  IN  /\ Len(toks) = Cardinality(rs)
                      /\ \A i \in 1..Len(toks) :
                            \E r \in rs :
                                /\ toks[i] = SubSeq(consumed[n], r[1], r[2])
                                /\ Cardinality({q \in rs : q[1] < r[1]}) = i - 1
            /\ bs = DocInput =>
                  Table = (Text2(97, 97) :> 1) @@ (Text2(98, 98) :> 2) @@ (Text2(99, 99) :> 1)
            /\ bs = Works2Input =>
                  Table = (Text2(97, 97) :> 1) @@ (Text2(99, 99) :> 1) @@ (Text2(100, 100) :> 1)
            /\ bs = Works3Input =>
                  /\ Cardinality(DOMAIN Table) = 3
                  /\ Table = (Text2(97, 97) :> 1) @@ (Text2(99, 99) :> 1)
                                 @@ (Text2(100, 100) :> 1)

\* Two separators in a row between two words, on a line that was counted.
C2_Witness ==
    /\ Returned
    /\ option = "Word"
    /\ \E n \in 1..Len(consumed) :
          LET l == consumed[n]
          IN  \E i \in 2..(Len(l) - 2) :
                  /\ IsWordChar(l[i - 1])
                  /\ ~IsWordChar(l[i])
                  /\ ~IsWordChar(l[i + 1])
                  /\ IsWordChar(l[i + 2])

\* C3: in every mode, when some line of the input is not valid UTF-8 the
\* call panics and hands back no table, not even the table of the valid
\* lines before the invalid one, and no replacement character is counted.
C3_InvalidUtf8Panics ==
    ~ValidUtf8(source.bytes) =>
        /\ pc # "returned"
        /\ result = {}
        /\ pc = "loop" => ENABLED Next
        /\ \A k \in DOMAIN freqs : \A i \in 1..Len(k) : k[i] # 65533

\* A panic on invalid UTF-8 after valid lines have been counted.
C3_Witness ==
    /\ pc = "panicked"
    /\ err = "InvalidData"
    /\ source.end = "eof"
    /\ consumed # << >>
    /\ freqs # EmptyTable
    /\ result = {}

\* The characters of the lines of a byte sequence, counted on the bytes:
\* every byte that is no continuation byte starts one, and the '\n' bytes
\* and the '\r' bytes before a '\n' are terminators.
NumChars(bs) ==
    Cardinality({i \in 1..Len(bs) : ~IsCont(bs[i])})
        - Cardinality(NewlinesOf(bs))
        - Cardinality({i \in 1..(Len(bs) - 1) : bs[i] = 13 /\ bs[i + 1] = 10})

\* C4: in Char mode every Unicode scalar value of every line is one token,
\* keyed as a one-character string; the stripped terminator gives no token:
\* the counts sum to the number of characters of the lines, no key is a
\* newline, and "ab\ncd" gives a:1 b:1 c:1 d:1.
C4_CharTokensAreScalarValues ==
    (Returned /\ option = "Char") =>
        LET bs == source.bytes
            chars == Flatten(SourceLines(bs))
        IN  /\ \A k \in DOMAIN Table : Len(k) = 1 /\ k[1] # 10
            /\ DOMAIN Table = {Text1(chars[i]) : i \in 1..Len(chars)}
            /\ \A k \in DOMAIN Table : Table[k] = Occurrences(chars, k[1])
            /\ SumTable(Table) = NumChars(bs)
            /\ bs = CharInput =>
                  Table = (Text1(97) :> 1) @@ (Text1(98) :> 1) @@ (Text1(99) :> 1)
                              @@ (Text1(100) :> 1)

\* A character of two bytes counted, in an input of more than one line.
C4_Witness ==
    /\ Returned
    /\ option = "Char"
    /\ Len(consumed) >= 2
    /\ \E k \in DOMAIN Table : k[1] >= 128

\* C5: in Line mode every line, with its terminator stripped and otherwise
\* verbatim, the empty line included, is one token: the counts sum to the
\* number of lines and equal lines share one entry; "x\nx\ny" gives x:2 y:1.
C5_LineTokensAreLines ==
    (Returned /\ option = "Line") =>
        LET bs == source.bytes
            lines == SourceLines(bs)
        IN  /\ SumTable(Table) = NumLines(bs)
            /\ DOMAIN Table = Range(lines)
            /\ \A k \in DOMAIN Table : Table[k] = Occurrences(lines, k)
            /\ \A k \in DOMAIN Table : \A i \in 1..Len(k) : k[i] # 10
            /\ bs = LineInput => Table = (Text1(120) :> 2) @@ (Text1(121) :> 1)
            /\ bs = <<10, 10>> => Table = (<< >> :> 2)

\* Two equal lines, one ended by "\r\n" and one by "\n", share an entry.
C5_Witness ==
    /\ Returned
    /\ option = "Line"
    /\ \E k \in DOMAIN Table : Table[k] >= 2
    /\ \E i \in 1..(Len(source.bytes) - 1) :
          source.bytes[i] = 13 /\ source.bytes[i + 1] = 10

\* C6: invalid UTF-8 in a line is the only condition under which count
\* fails: whenever the call does not return a table some line was not valid
\* UTF-8, and every other outcome of reading the source makes it return.
C6_OnlyInvalidUtf8Fails ==
    /\ pc = "panicked" => ~ValidUtf8(source.bytes)
    /\ (ValidUtf8(source.bytes) /\ pc # "loop") => (Returned /\ result # {})

\* C7: count is deterministic and keeps no state between calls: a call on
\* the same input with the same option ends as an earlier one did, with an
\* identical table, whatever calls ran before or in between.
C7_SameInputSameTable ==
    /\ (pc = "loop" /\ pos = 0) => freqs = EmptyTable
    /\ (pc # "loop" /\ ref.set /\ ref.source = source /\ ref.option = option) =>
          (ref.pc = pc /\ ref.result = result)

\* The third call repeats a remembered one and returns a table with entries.
C7_Witness ==
    /\ Returned
    /\ calls = 3
    /\ ref.set
    /\ ref.source = source
    /\ ref.option = option
    /\ result = ref.result
    /\ Table # EmptyTable

\* C8: the default CountOption is Word: a call given the default option
\* returns, for every input, the table of a call given Word.
C8_DefaultIsWord ==
    viaDefault =>
        /\ option = "Word"
        /\ Returned => Table = CountLines(SourceLines(source.bytes), "Word")

\* A call with the default option whose table neither Char nor Line gives.
C8_Witness ==
    /\ Returned
    /\ viaDefault
    /\ Table # EmptyTable
    /\ Table # CountLines(SourceLines(source.bytes), "Char")
    /\ Table # CountLines(SourceLines(source.bytes), "Line")

\* C9: for a finite input of valid UTF-8 lines and every option the call
\* eventually returns; when it returns every line has been consumed once,
\* in source order, none skipped, revisited or left unread, and each
\* iteration of the loop takes exactly the next line.
C9_ReturnsAfterWholeInput ==
    /\ [](Returned => /\ pos = Len(source.bytes)
                      /\ consumed = SourceLines(source.bytes))
    /\ [][(pc = "loop" /\ pc' = "loop") =>
              /\ pos' > pos
              /\ Len(consumed') = Len(consumed) + 1
              /\ SubSeq(consumed', 1, Len(consumed)) = consumed]_vars
    /\ ValidSource ~> Returned

\* A call that has returned after a loop of three lines.
C9_Witness ==
    /\ Returned
    /\ ValidSource
    /\ Len(consumed) >= 3
    /\ pos = Len(source.bytes)

\* Key-wise sum of two tables, an absent key counting as 0.
TableSum(f, g) ==
    [k \in DOMAIN f \cup DOMAIN g |->
        (IF k \in DOMAIN f THEN f[k] ELSE 0) + (IF k \in DOMAIN g THEN g[k] ELSE 0)]

LineOrders(n) == {p \in [1..n -> 1..n] : \A i, j \in 1..n : p[i] = p[j] => i = j}

\* C10: counting is additive over lines and independent of their order:
\* the table of A followed by B is the key-wise sum of the tables of A and
\* of B, and every permutation of the lines gives the same table.
C10_AdditiveOverLines ==
    Returned =>
        LET lines == SourceLines(source.bytes)
            n == Len(lines)
        IN  /\ \A k \in 0..n :
                  Table = TableSum(CountLines(SubSeq(lines, 1, k), option),
                                   CountLines(SubSeq(lines, k + 1, n), option))
            /\ \A p \in LineOrders(n) :
                  Table = CountLines([i \in 1..n |-> lines[p[i]]], option)

\* Two lines that share a token, in an input with another token besides.
C10_Witness ==
    /\ Returned
    /\ Len(consumed) >= 3
    /\ Cardinality(DOMAIN Table) >= 2
    /\ \E k \in DOMAIN Table :
          /\ Table[k] >= 2
          /\ k \in Range(Tokens(consumed[1], option))
          /\ k \in Range(Tokens(consumed[2], option))

====
